---------------------------- MODULE Spec2Model ----------------------------
(***************************************************************************)
(* A model of the inline-completion provider of src/src/extension.ts:      *)
(* the debounce / cancellation scheduler of CompletionProvider, the        *)
(* pipeline run when a debounce timer fires, and the response sanitizer.   *)
(*                                                                         *)
(* Text is modelled by TLA+ strings, read as sequences of characters with  *)
(* Len, SubSeq and \o.  Positions in the model are 1-based; the 0-based    *)
(* columns and lines of the source are converted where they are read.      *)
(***************************************************************************)
EXTENDS Integers, Sequences, FiniteSets, TLC

-----------------------------------------------------------------------------
(* Characters and the string primitives of JavaScript the code uses.       *)

\* The grave accent.  The lexer reads a lone grave accent inside a string as
\* the start of a quotation, so the character is cut out of a closed one.
BACKTICK == SubSeq("`'", 1, 1)

FENCE == BACKTICK \o BACKTICK \o BACKTICK

DQUOTE == "\""

SQUOTE == "'"

\* \s of a JavaScript regular expression and the white space of trim(),
\* restricted to the characters the model's texts are built from.
WhiteSpace == {" ", "\t", "\n", "\r", "\f"}

\* The line terminators: where ^ and $ match under the m flag, and what "."
\* does not match.
LineTerminators == {"\n", "\r"}

\* \w of a JavaScript regular expression.
WordChars ==
  {"a","b","c","d","e","f","g","h","i","j","k","l","m","n","o","p","q","r","s",
   "t","u","v","w","x","y","z","A","B","C","D","E","F","G","H","I","J","K","L",
   "M","N","O","P","Q","R","S","T","U","V","W","X","Y","Z","0","1","2","3","4",
   "5","6","7","8","9","_"}

Min(S) == CHOOSE x \in S : \A y \in S : x <= y

Max(S) == CHOOSE x \in S : \A y \in S : x >= y

\* s[i], the empty string outside s.
Char(s, i) == IF i >= 1 /\ i <= Len(s) THEN SubSeq(s, i, i) ELSE ""

\* Whether p occurs in s at position i.
StartsWithAt(s, p, i) ==
  /\ i >= 1
  /\ i + Len(p) - 1 <= Len(s)
  /\ SubSeq(s, i, i + Len(p) - 1) = p

\* String.prototype.startsWith
StartsWith(s, p) == StartsWithAt(s, p, 1)

\* String.prototype.endsWith
EndsWith(s, p) == StartsWithAt(s, p, Len(s) - Len(p) + 1)

\* String.prototype.includes
Includes(s, p) == \E i \in 1..(Len(s) + 1) : StartsWithAt(s, p, i)

\* String.prototype.substring(0, n)
SubstringTo(s, n) == SubSeq(s, 1, IF n > Len(s) THEN Len(s) ELSE n)

\* The first position >= i of s whose character satisfies the test, Len(s)+1
\* when there is none.
FirstNonSpaceFrom(s, i) ==
  LET hit == {j \in i..Len(s) : Char(s, j) \notin WhiteSpace}
  IN  IF hit = {} THEN Len(s) + 1 ELSE Min(hit)

FirstNonWordFrom(s, i) ==
  LET hit == {j \in i..Len(s) : Char(s, j) \notin WordChars}
  IN  IF hit = {} THEN Len(s) + 1 ELSE Min(hit)

FirstLineTerminatorFrom(s, i) ==
  LET hit == {j \in i..Len(s) : Char(s, j) \in LineTerminators}
  IN  IF hit = {} THEN Len(s) + 1 ELSE Min(hit)

\* The first position >= i of s holding character c, 0 when there is none.
FirstCharFrom(s, c, i) ==
  LET hit == {j \in i..Len(s) : Char(s, j) = c}
  IN  IF hit = {} THEN 0 ELSE Min(hit)

\* String.prototype.trimLeft
TrimLeft(s) == SubSeq(s, FirstNonSpaceFrom(s, 1), Len(s))

\* String.prototype.trimRight
TrimRight(s) ==
  LET hit == {j \in 1..Len(s) : Char(s, j) \notin WhiteSpace}
  IN  IF hit = {} THEN "" ELSE SubSeq(s, 1, Max(hit))

\* String.prototype.trim
Trim(s) == TrimLeft(TrimRight(s))

\* String.prototype.replace(re, rep) for a regular expression with the g flag
\* whose matches are never empty: matchLen[i] is the length of the match of
\* re that starts at position i of s, 0 when re does not match there.  The
\* scan is leftmost first and resumes after each match.
ReplaceAll(matchLen, s, rep) ==
  LET n == Len(s)
      R[i \in 1..(n + 1)] ==
        IF i > n THEN ""
        ELSE IF matchLen[i] > 0 THEN rep \o R[i + matchLen[i]]
        ELSE Char(s, i) \o R[i + 1]
  IN  R[1]

-----------------------------------------------------------------------------
(* The regular expressions of cleanCompletion, each as the length of its   *)
(* match at a position.                                                    *)

\* /```(?:typescript|javascript)?\n?/
FenceTagMatchLen(s, i) ==
  IF ~StartsWithAt(s, FENCE, i) THEN 0
  ELSE LET j == i + 3
           k == IF StartsWithAt(s, "typescript", j) THEN j + 10
                ELSE IF StartsWithAt(s, "javascript", j) THEN j + 10
                ELSE j
           e == IF Char(s, k) = "\n" THEN k + 1 ELSE k
       IN  e - i

\* /```\n?/
FenceMatchLen(s, i) ==
  IF ~StartsWithAt(s, FENCE, i) THEN 0
  ELSE IF Char(s, i + 3) = "\n" THEN 4 ELSE 3

\* /^\n+/ replaced by "": the leading line feeds go.
StripLeadingNewlines(s) ==
  LET hit == {j \in 1..Len(s) : Char(s, j) # "\n"}
  IN  IF hit = {} THEN "" ELSE SubSeq(s, Min(hit), Len(s))

\* /\n+$/ replaced by "": the trailing line feeds go.
StripTrailingNewlines(s) ==
  LET hit == {j \in 1..Len(s) : Char(s, j) # "\n"}
  IN  IF hit = {} THEN "" ELSE SubSeq(s, 1, Max(hit))

\* /^\s*\/\/.*$/ under the m flag: from a line start, white space (line
\* terminators included), then // and the rest of that line.
CommentLineMatchLen(s, i) ==
  IF ~(i = 1 \/ Char(s, i - 1) \in LineTerminators) THEN 0
  ELSE LET j == FirstNonSpaceFrom(s, i)
       IN  IF StartsWithAt(s, "//", j)
           THEN FirstLineTerminatorFrom(s, j + 2) - i
           ELSE 0

\* /^[^{]*{[^}]*}$/: the whole text, when its first { is followed by exactly
\* one }, the last character.  FALSE stands for the null of a failed match.
FunctionBlockMatchAt(s, open) ==
  IF open > 0 /\ FirstCharFrom(s, "}", open + 1) = Len(s)
  THEN [matched |-> TRUE, whole |-> SubSeq(s, 1, Len(s))]
  ELSE [matched |-> FALSE, whole |-> ""]

FunctionBlockMatch(s) == FunctionBlockMatchAt(s, FirstCharFrom(s, "{", 1))

\* /console\.log\((["'])(.*?)\1\)/: the leftmost console.log( followed by a
\* quote, the shortest run without a line terminator, the same quote and ).
\* group is the run (the second capture).
ConsoleLogCloses(s, i, lim) ==
  {j \in (i + 13)..Len(s) :
     j <= lim /\ Char(s, j) = Char(s, i + 12) /\ Char(s, j + 1) = ")"}

ConsoleLogStarts(s) ==
  {i \in 1..Len(s) :
     /\ StartsWithAt(s, "console.log(", i)
     /\ Char(s, i + 12) \in {DQUOTE, SQUOTE}
     /\ ConsoleLogCloses(s, i, FirstLineTerminatorFrom(s, i + 13)) # {}}

ConsoleLogGroup(s, i) ==
  SubSeq(s, i + 13,
         Min(ConsoleLogCloses(s, i, FirstLineTerminatorFrom(s, i + 13))) - 1)

ConsoleLogMatchAmong(s, starts) ==
  IF starts = {} THEN [matched |-> FALSE, group |-> ""]
  ELSE [matched |-> TRUE, group |-> ConsoleLogGroup(s, Min(starts))]

ConsoleLogMatch(s) == ConsoleLogMatchAmong(s, ConsoleLogStarts(s))

\* /: \w+(?=[\s,)])/
TypeAnnotationMatchLen(s, i) ==
  IF ~StartsWithAt(s, ": ", i) THEN 0
  ELSE LET e == FirstNonWordFrom(s, i + 2)
       IN  IF e > i + 2 /\ Char(s, e) \in (WhiteSpace \cup {",", ")"})
           THEN e - i
           ELSE 0

\* /<[^>]+>/
GenericMatchLen(s, i) ==
  IF Char(s, i) # "<" THEN 0
  ELSE LET e == FirstCharFrom(s, ">", i + 1)
       IN  IF e > i + 1 THEN e - i + 1 ELSE 0

\* /: \w+\[\]/
ArrayAnnotationMatchLen(s, i) ==
  IF ~StartsWithAt(s, ": ", i) THEN 0
  ELSE LET e == FirstNonWordFrom(s, i + 2)
       IN  IF e > i + 2 /\ StartsWithAt(s, "[]", e) THEN e + 2 - i ELSE 0

\* /interface \w+ {[^}]+}/
InterfaceMatchLen(s, i) ==
  IF ~StartsWithAt(s, "interface ", i) THEN 0
  ELSE LET e == FirstNonWordFrom(s, i + 10)
       IN  IF e > i + 10 /\ StartsWithAt(s, " {", e)
           THEN LET c == FirstCharFrom(s, "}", e + 2)
                IN  IF c > e + 2 THEN c - i + 1 ELSE 0
           ELSE 0

\* /\r\n/
CrLfMatchLen(s, i) == IF StartsWithAt(s, "\r\n", i) THEN 2 ELSE 0

-----------------------------------------------------------------------------
(* The Response Sanitizer.                                                 *)

\* Each replace of the sanitizer, on its regular expression.
RemoveFenceTags(s) ==
  ReplaceAll([i \in 1..Len(s) |-> FenceTagMatchLen(s, i)], s, "")

RemoveFences(s) ==
  ReplaceAll([i \in 1..Len(s) |-> FenceMatchLen(s, i)], s, "")

RemoveCommentLines(s) ==
  ReplaceAll([i \in 1..Len(s) |-> CommentLineMatchLen(s, i)], s, "")

RemoveTypeAnnotations(s) ==
  ReplaceAll([i \in 1..Len(s) |-> TypeAnnotationMatchLen(s, i)], s, "")

RemoveGenerics(s) ==
  ReplaceAll([i \in 1..Len(s) |-> GenericMatchLen(s, i)], s, "")

RemoveArrayAnnotations(s) ==
  ReplaceAll([i \in 1..Len(s) |-> ArrayAnnotationMatchLen(s, i)], s, "")

RemoveInterfaces(s) ==
  ReplaceAll([i \in 1..Len(s) |-> InterfaceMatchLen(s, i)], s, "")

NormalizeLineEndings(s) ==
  ReplaceAll([i \in 1..Len(s) |-> CrLfMatchLen(s, i)], s, "\n")

\* The type-stripping replaces of the javascript profile.
StripTypes(s) ==
  RemoveInterfaces(RemoveArrayAnnotations(RemoveGenerics(
    RemoveTypeAnnotations(s))))

\* The five replaces cleanCompletion starts with.
StripMarkup(completion) ==
  RemoveCommentLines(StripTrailingNewlines(StripLeadingNewlines(
    RemoveFences(RemoveFenceTags(completion)))))

\* if (cleaned.includes("function") && cleaned.includes("{")) { ... }
KeepFunctionBlock(cleaned) ==
  IF /\ Includes(cleaned, "function")
     /\ Includes(cleaned, "{")
     /\ FunctionBlockMatch(cleaned).matched
  THEN FunctionBlockMatch(cleaned).whole
  ELSE cleaned

\* From if (cleaned.includes("console.log(")) to the end of the method.
FinishClean(cleaned, stringMatch, language) ==
  IF Includes(cleaned, "console.log(") /\ stringMatch.matched
  THEN "console.log(" \o DQUOTE \o stringMatch.group \o DQUOTE \o ")"
  ELSE IF language = "javascript" THEN StripTypes(cleaned) ELSE cleaned

CleanFrom(cleaned, language) ==
  FinishClean(cleaned, ConsoleLogMatch(cleaned), language)

\* CompletionProvider.cleanCompletion; language is this.currentLanguage as
\* it stands when the method runs.
cleanCompletion(completion, language) ==
  CleanFrom(KeepFunctionBlock(StripMarkup(completion)), language)

\* this.cleanCompletion(completion).replace(/\r\n/g, "\n").replace(/^\s+/g, "")
Sanitize(completion, language) ==
  TrimLeft(NormalizeLineEndings(cleanCompletion(completion, language)))

-----------------------------------------------------------------------------
(* The Context Extractor.  A document is a record [languageId, fsPath,     *)
(* lines]; a position is [line, character], both 0-based as in the editor. *)

CONTEXT_BLOCK_SIZE == 20

\* The comment lookback of getContextFromComments.
COMMENT_LOOKBACK == 5

\* document.lineAt(line).text
LineAt(document, line) == document.lines[line + 1]

\* document.getText(new Range(new Position(startLine, 0), position))
GetTextUpTo(document, startLine, position) ==
  LET R[l \in startLine..position.line] ==
        IF l = position.line
        THEN SubstringTo(LineAt(document, l), position.character)
        ELSE LineAt(document, l) \o "\n" \o R[l + 1]
  IN  R[startLine]

\* CompletionProvider.getContextFromComments: the loop, from lineNumber down,
\* with the context collected so far.
RECURSIVE CommentLoop(_, _, _, _)
CommentLoop(document, position, lineNumber, context) ==
  IF lineNumber >= 0 /\ lineNumber > position.line - COMMENT_LOOKBACK
  THEN LET line == Trim(LineAt(document, lineNumber))
       IN  IF StartsWith(line, "//")
           THEN CommentLoop(document, position, lineNumber - 1,
                            line \o "\n" \o context)
           ELSE IF context # "" THEN context
           ELSE CommentLoop(document, position, lineNumber - 1, context)
  ELSE context

\* A getContextFromComments whose loop never breaks: every comment line of the
\* lines it scans is collected.
getContextFromComments_NoBreak(document, position) ==
  LET R[l \in (-1)..position.line] ==
        IF l >= 0 /\ l > position.line - COMMENT_LOOKBACK
        THEN IF StartsWith(Trim(LineAt(document, l)), "//")
             THEN R[l - 1] \o Trim(LineAt(document, l)) \o "\n"
             ELSE R[l - 1]
        ELSE ""
  IN  R[position.line]

getContextFromComments(document, position) ==
  CommentLoop(document, position, position.line, "")

UpperCaseLetters == "ABCDEFGHIJKLMNOPQRSTUVWXYZ"

LowerCaseLetters == "abcdefghijklmnopqrstuvwxyz"

\* String.prototype.toLowerCase, on one character and on a text.
LowerChar(c) ==
  LET at == {k \in 1..Len(UpperCaseLetters) : Char(UpperCaseLetters, k) = c}
  IN  IF at = {} THEN c ELSE Char(LowerCaseLetters, Min(at))

ToLowerCase(s) ==
  LET R[i \in 1..(Len(s) + 1)] ==
        IF i > Len(s) THEN "" ELSE LowerChar(Char(s, i)) \o R[i + 1]
  IN  R[1]

\* fsPath.split(".").pop(): the text after the last dot, the whole path when
\* it has none.
LastSegment(fsPath) ==
  LET dots == {i \in 1..Len(fsPath) : Char(fsPath, i) = "."}
  IN  IF dots = {} THEN fsPath ELSE SubSeq(fsPath, Max(dots) + 1, Len(fsPath))

\* document.uri.fsPath.split(".").pop()?.toLowerCase() || ""
FileExtension(fsPath) == ToLowerCase(LastSegment(fsPath))

\* The language computed by CompletionProvider.getLanguageContext (which
\* also stores it in this.currentLanguage: see SendRequest).
getLanguageContext(document) ==
  IF \/ document.languageId = "typescript"
     \/ FileExtension(document.fsPath) = "ts"
     \/ FileExtension(document.fsPath) = "tsx"
  THEN "typescript"
  ELSE "javascript"

\* isInsideComment that never finds a comment.
isInsideComment_Never(document, position) == FALSE

\* CompletionProvider.isInsideComment
isInsideComment(document, position) ==
  StartsWith(TrimLeft(SubstringTo(LineAt(document, position.line),
                                  position.character)), "//")

\* The part of both declaration patterns after the name:
\* \s*(?:=\s*)?(?:async\s*)?\(  followed by [^)]*\).  The position of the
\* opening parenthesis, 0 when the part does not match at k.
ParenAt(s, c) ==
  IF Char(s, c) = "(" /\ FirstCharFrom(s, ")", c + 1) > 0 THEN c ELSE 0

AfterAsync(s, b) ==
  ParenAt(s, IF StartsWithAt(s, "async", b)
             THEN FirstNonSpaceFrom(s, b + 5) ELSE b)

AfterEquals(s, a) ==
  AfterAsync(s, IF Char(s, a) = "=" THEN FirstNonSpaceFrom(s, a + 1) ELSE a)

DeclarationParen(s, k) == AfterEquals(s, FirstNonSpaceFrom(s, k))

\* The keyword of (?:function|const|let|var) at position i, "" when none.
DeclarationKeyword(s, i) ==
  IF StartsWithAt(s, "function", i) THEN "function"
  ELSE IF StartsWithAt(s, "const", i) THEN "const"
  ELSE IF StartsWithAt(s, "let", i) THEN "let"
  ELSE IF StartsWithAt(s, "var", i) THEN "var"
  ELSE ""

\* /(?:function|const|let|var)\s+(\w+)\s*(?:=\s*(?:async\s*)?\(([^)]*)\)
\*   |(?:async\s*)?\(([^)]*)\))/ : the length of its match at i.
DeclarationLenTo(s, i, open) ==
  IF open = 0 THEN 0 ELSE FirstCharFrom(s, ")", open + 1) - i + 1

DeclarationLenName(s, i, w, e) ==
  IF e = w THEN 0 ELSE DeclarationLenTo(s, i, DeclarationParen(s, e))

DeclarationLenSpace(s, i, k, w) ==
  IF w = k THEN 0 ELSE DeclarationLenName(s, i, w, FirstNonWordFrom(s, w))

DeclarationLenKeyword(s, i, kw) ==
  IF kw = "" THEN 0
  ELSE DeclarationLenSpace(s, i, i + Len(kw),
                           FirstNonSpaceFrom(s, i + Len(kw)))

FunctionDeclarationMatchLen(s, i) ==
  DeclarationLenKeyword(s, i, DeclarationKeyword(s, i))

\* contextText.match(/.../g) || []: the matches, leftmost first, each search
\* resuming after the previous match.
FunctionDeclarations(s) ==
  LET n == Len(s)
      R[i \in 1..(n + 1)] ==
        IF i > n THEN << >>
        ELSE LET l == FunctionDeclarationMatchLen(s, i)
             IN  IF l > 0 THEN <<SubSeq(s, i, i + l - 1)>> \o R[i + l]
                 ELSE R[i + 1]
  IN  R[1]

\* String.prototype.split(",")
SplitComma(s) ==
  LET n == Len(s)
      R[i \in 1..(n + 1), from \in 1..(n + 1)] ==
        IF i > n THEN <<SubSeq(s, from, n)>>
        ELSE IF Char(s, i) = ","
             THEN <<SubSeq(s, from, i - 1)>> \o R[i + 1, i + 1]
             ELSE R[i + 1, from]
  IN  R[1, 1]

\* lastFn.match(/(\w+)\s*(?:=\s*)?(?:async\s*)?\(([^)]*)\)/): the leftmost
\* word followed by a parameter list, as [name, params], params being
\* match[2].split(",").map((p) => p.trim()).
TrimEach(parts) == [k \in 1..Len(parts) |-> Trim(parts[k])]

ParsedAt(lastFn, p, e, open) ==
  [matched |-> TRUE,
   name |-> SubSeq(lastFn, p, e - 1),
   params |-> TrimEach(SplitComma(
                SubSeq(lastFn, open + 1,
                       FirstCharFrom(lastFn, ")", open + 1) - 1)))]

ParsedFrom(lastFn, p, e) == ParsedAt(lastFn, p, e, DeclarationParen(lastFn, e))

ParsedAmong(lastFn, starts) ==
  IF starts = {} THEN [matched |-> FALSE, name |-> "", params |-> << >>]
  ELSE ParsedFrom(lastFn, Min(starts), FirstNonWordFrom(lastFn, Min(starts)))

ParseDeclaration(lastFn) ==
  ParsedAmong(lastFn,
    {p \in 1..Len(lastFn) :
       /\ Char(lastFn, p) \in WordChars
       /\ DeclarationParen(lastFn, FirstNonWordFrom(lastFn, p)) > 0})

\* this.lastDefinedFunction = null
NoFunction == [set |-> FALSE, name |-> "", params |-> << >>, line |-> 0]

\* The value of this.lastDefinedFunction after CompletionProvider
\* .analyzeCodeBlock(document, position) has run with it holding last.
\* const contextText = document.getText(new Range(new Position(
\*   Math.max(0, position.line - CONTEXT_BLOCK_SIZE), 0), position))
ContextText(document, position) ==
  GetTextUpTo(document,
              IF position.line - CONTEXT_BLOCK_SIZE > 0
              THEN position.line - CONTEXT_BLOCK_SIZE ELSE 0,
              position)

FunctionFromMatch(match, position, last) ==
  IF match.matched
  THEN [set |-> TRUE, name |-> match.name, params |-> match.params,
        line |-> position.line - 1]
  ELSE last

\* FunctionFromDeclarations that forgets the last function when the window
\* holds no declaration.
FunctionFromDeclarations_Forgets(functionDeclarations, position, last) ==
  IF Len(functionDeclarations) > 0
  THEN FunctionFromMatch(
         ParseDeclaration(functionDeclarations[Len(functionDeclarations)]),
         position, NoFunction)
  ELSE NoFunction

FunctionFromDeclarations(functionDeclarations, position, last) ==
  IF Len(functionDeclarations) > 0
  THEN FunctionFromMatch(
         ParseDeclaration(functionDeclarations[Len(functionDeclarations)]),
         position, last)
  ELSE last

AnalyzedFunction(document, position, last) ==
  FunctionFromDeclarations(
    FunctionDeclarations(ContextText(document, position)), position, last)

\* RecentlyDefined against the line of the cursor itself.
RecentlyDefined_CursorLine(fn, position) ==
  fn.set /\ fn.line = position.line

\* recentlyDefinedFunction of analyzeCodeBlock, read after the update.
RecentlyDefined(fn, position) == fn.set /\ fn.line = position.line - 1

\* The argument literal generateFunctionUsageExample picks for a parameter.
ExampleParam(param) ==
  IF Includes(param, "number") THEN "42"
  ELSE IF Includes(param, "string") THEN DQUOTE \o "example" \o DQUOTE
  ELSE IF Includes(param, "array") \/ Includes(param, "[]") THEN "[1, 2, 3]"
  ELSE IF Includes(param, "boolean") THEN "true"
  ELSE "undefined"

\* Array.prototype.join(", ")
JoinComma(parts) ==
  LET R[k \in 1..(Len(parts) + 1)] ==
        IF k > Len(parts) THEN ""
        ELSE IF k = Len(parts) THEN parts[k]
        ELSE parts[k] \o ", " \o R[k + 1]
  IN  R[1]

\* exampleParams.join(", ") of generateFunctionUsageExample
ExampleArguments(fn) ==
  JoinComma([k \in 1..Len(fn.params) |-> ExampleParam(fn.params[k])])

\* CompletionProvider.buildCompletionPrompt, with fn the value of
\* this.lastDefinedFunction after analyzeCodeBlock.  The prompt is kept as
\* its kind and the values rendered into its text.
buildCompletionPrompt(document, position, currentLine, commentContext, language, fn) ==
  IF isInsideComment(document, position)
  THEN [kind |-> "comment", line |-> currentLine, name |-> "", args |-> "",
        language |-> "", intent |-> ""]
  ELSE IF RecentlyDefined(fn, position)
  THEN [kind |-> "usage", line |-> "", name |-> fn.name,
        args |-> ExampleArguments(fn), language |-> "", intent |-> ""]
  ELSE [kind |-> "general", line |-> currentLine, name |-> "", args |-> "",
        language |-> language,
        intent |-> LET comments == getContextFromComments(document, position)
                   IN  IF comments # "" THEN comments
                       ELSE "Continue the logical flow"]

-----------------------------------------------------------------------------
(* The body of the debounced function of provideInlineCompletionItems, in  *)
(* its pure parts.                                                         *)

\* currentLine.substring(0, position.character)
CurrentLineUptoCursor(document, position) ==
  SubstringTo(LineAt(document, position.line), position.character)

\* !currentLine.trim()
IsEmptyLine(document, position) == Trim(LineAt(document, position.line)) = ""

\* A ShortCircuit that does not look at whether the line is blank.
ShortCircuit_BlankToo(document, position) ==
  /\ getContextFromComments(document, position) = ""
  /\ Len(Trim(CurrentLineUptoCursor(document, position))) < 2

\* The condition of the early return [] that precedes any request.
ShortCircuit(document, position) ==
  /\ getContextFromComments(document, position) = ""
  /\ ~IsEmptyLine(document, position)
  /\ Len(Trim(CurrentLineUptoCursor(document, position))) < 2

\* A response body is [hasChoices, choices], choices a sequence of
\* [hasMessage, hasContent, content]: the has-fields say whether the JSON
\* holds the property.  response.data.choices[0]?.message?.content: threw
\* when the read raises a TypeError (no choices to index), defined when the
\* value is not undefined.
ExtractContent(data) ==
  IF ~data.hasChoices
  THEN [threw |-> TRUE, defined |-> FALSE, content |-> ""]
  ELSE IF Len(data.choices) = 0
  THEN [threw |-> FALSE, defined |-> FALSE, content |-> ""]
  ELSE LET first == data.choices[1]
       IN  IF first.hasMessage /\ first.hasContent
           THEN [threw |-> FALSE, defined |-> TRUE, content |-> first.content]
           ELSE [threw |-> FALSE, defined |-> FALSE, content |-> ""]

\* The open-string special case on a line that holds console.log( .
\* if (!completion.endsWith(")")) completion += '")'
CloseString(completion) ==
  IF ~EndsWith(completion, ")") THEN completion \o DQUOTE \o ")"
  ELSE completion

\* if (!completion.includes('"') && !completion.includes("'")) ...
OpenString(completion) ==
  IF ~Includes(completion, DQUOTE) /\ ~Includes(completion, SQUOTE)
  THEN DQUOTE \o completion
  ELSE completion

OpenStringFix(completion, currentLineUptoCursor) ==
  IF Includes(currentLineUptoCursor, "console.log(")
  THEN OpenString(CloseString(completion))
  ELSE completion

\* The condition of the return [] for a completion with nothing to insert.
NothingToInsert(completion, currentLineUptoCursor) ==
  completion = currentLineUptoCursor \/ Trim(completion) = ""

\* ReconcilePrefix without the prepending.
ReconcilePrefix_Never(completion, currentLineUptoCursor) == completion

\* The typed prefix is put in front of a completion that does not start
\* with it.
ReconcilePrefix(completion, currentLineUptoCursor) ==
  IF ~StartsWith(completion, TrimLeft(currentLineUptoCursor))
  THEN currentLineUptoCursor \o completion
  ELSE completion

\* new vscode.InlineCompletionItem(text, new vscode.Range(start, end))
Item(text, startLine, startCharacter, endLine, endCharacter) ==
  [text |-> text,
   range |-> [start |-> [line |-> startLine, character |-> startCharacter],
              end |-> [line |-> endLine, character |-> endCharacter]]]

Quoted(label, text) == label \o ": " \o DQUOTE \o text \o DQUOTE

\* What the function does with a defined, non-empty content: the value it
\* returns and the lines it appends to the output channel.  language is
\* this.currentLanguage as it stands when the response is processed.
\* The general case, from the first appendLine on: final is the completion
\* reconciled with the typed prefix.
ReturnGeneral(completion, final, currentLineUptoCursor, commentContext, position) ==
  IF NothingToInsert(completion, currentLineUptoCursor)
  THEN [value |-> << >>,
        log |-> <<Quoted("Current line", currentLineUptoCursor),
                  Quoted("Completion", completion)>>]
  ELSE [value |-> <<Item(final, position.line, 0,
                         position.line, position.character)>>,
        log |-> <<Quoted("Current line", currentLineUptoCursor),
                  Quoted("Completion", completion),
                  Quoted("Comment context", commentContext),
                  Quoted("Current line", currentLineUptoCursor),
                  Quoted("Completion", final)>>]

\* ReturnCompletion without the return of the blank line under a comment.
ReturnCompletion_OneRange(completion, currentLineUptoCursor, isEmptyLine, commentContext, position) ==
  ReturnGeneral(completion, ReconcilePrefix(completion, currentLineUptoCursor),
                currentLineUptoCursor, commentContext, position)

\* From if (isEmptyLine && commentContext) on.
ReturnCompletion(completion, currentLineUptoCursor, isEmptyLine, commentContext, position) ==
  IF isEmptyLine /\ commentContext # ""
  THEN [value |-> <<Item(completion, position.line, position.character,
                         position.line, position.character)>>,
        log |-> << >>]
  ELSE ReturnGeneral(completion,
                     ReconcilePrefix(completion, currentLineUptoCursor),
                     currentLineUptoCursor, commentContext, position)

ProcessSanitized(sanitized, currentLineUptoCursor, isEmptyLine, commentContext, position) ==
  ReturnCompletion(OpenStringFix(sanitized, currentLineUptoCursor),
                   currentLineUptoCursor, isEmptyLine, commentContext,
                   position)

ProcessContent(content, document, position, language) ==
  ProcessSanitized(Sanitize(content, language),
                   CurrentLineUptoCursor(document, position),
                   IsEmptyLine(document, position),
                   getContextFromComments(document, position),
                   position)

\* HandleError without the axios.isCancel test.
HandleError_LogsCancel(error) ==
  [raised |-> FALSE, value |-> << >>, log |-> <<"Error: " \o error.message>>]

\* HandleError without the appendLine.
HandleError_Silent(error) == [raised |-> FALSE, value |-> << >>, log |-> << >>]

\* The catch clause: an error is [cancel, message], cancel being
\* axios.isCancel(error).  raised says whether anything leaves the function
\* as an exception.
HandleError(error) ==
  IF error.cancel
  THEN [raised |-> FALSE, value |-> << >>, log |-> << >>]
  ELSE [raised |-> FALSE, value |-> << >>,
        log |-> <<"Error: " \o error.message>>]

\* The part of the function after the awaited axios.post returned response:
\* a response is [status, data]; axios rejects a status outside 2xx.
\* HandleContent without if (!completion) return [].
HandleContent_NoEmptyCheck(got, document, position, language) ==
  IF got.threw
  THEN HandleError([cancel |-> FALSE,
                    message |-> "Cannot read properties of undefined"])
  ELSE [raised |-> FALSE] @@
       ProcessContent(got.content, document, position, language)

\* From let completion = response.data.choices[0]?.message?.content on;
\* got is what the read gave.
HandleContent(got, document, position, language) ==
  IF got.threw
  THEN HandleError([cancel |-> FALSE,
                    message |-> "Cannot read properties of undefined"])
  ELSE IF ~got.defined \/ got.content = ""
  THEN [raised |-> FALSE, value |-> << >>, log |-> << >>]
  ELSE [raised |-> FALSE] @@
       ProcessContent(got.content, document, position, language)

HandleResponse(response, document, position, language) ==
  IF response.status < 200 \/ response.status >= 300
  THEN HandleError([cancel |-> FALSE,
                    message |-> "Request failed with status code"])
  ELSE HandleContent(ExtractContent(response.data), document, position,
                     language)

-----------------------------------------------------------------------------
(* The inputs of the scheduler model: the documents the editor shows, the  *)
(* positions it asks completions at, and what the model server answers.    *)

DEBOUNCE_DELAY == 300

Languages == {"javascript", "typescript"}

\* The calls of provideInlineCompletionItems a behaviour makes.
MaxCalls == 2

\* The clock advances in steps of DEBOUNCE_DELAY \div Granularity.
Granularity == 2

TimeStep == DEBOUNCE_DELAY \div Granularity

Calls == 1..MaxCalls

TsDocument ==
  [languageId |-> "typescript", fsPath |-> "/work/math.ts",
   lines |-> <<"// add two numbers",
               "function add(a: number, b: number) {",
               "",
               "console.log(" \o DQUOTE>>]

JsDocument ==
  [languageId |-> "javascript", fsPath |-> "/work/app.js",
   lines |-> <<"x",
               "  const total = add",
               "const y",
               "">>]

\* The (document, position) pairs of the triggers: a blank line under a
\* comment, an open console.log( string, a one-character line without a
\* comment, an indented line, a line typed in full, a blank line without a
\* comment.
InputList ==
  <<[document |-> TsDocument, position |-> [line |-> 2, character |-> 0]],
    [document |-> TsDocument, position |-> [line |-> 3, character |-> 13]],
    [document |-> JsDocument, position |-> [line |-> 0, character |-> 1]],
    [document |-> JsDocument, position |-> [line |-> 1, character |-> 19]],
    [document |-> JsDocument, position |-> [line |-> 2, character |-> 7]],
    [document |-> JsDocument, position |-> [line |-> 3, character |-> 0]]>>

\* The state names an input by its place in InputList, 0 for none.
TriggerInputs == 1..Len(InputList)

DocumentOf(in) == InputList[in].document

PositionOf(in) == InputList[in].position

Body(content) ==
  [hasChoices |-> TRUE,
   choices |-> <<[hasMessage |-> TRUE, hasContent |-> TRUE,
                  content |-> content]>>]

\* The answers of the model server: completions, bodies without content, a
\* body without choices, and a status outside 2xx.
ResponseList ==
  <<[status |-> 200, data |-> Body("hello")],
   [status |-> 200, data |-> Body(FENCE \o "javascript\n(a: number, 1);\n" \o FENCE)],
   [status |-> 200, data |-> Body("const y")],
   [status |-> 200, data |-> Body("const total = add(1, 2);")],
   [status |-> 200, data |-> Body("// nothing\n")],
   [status |-> 200, data |-> Body("")],
   [status |-> 200, data |-> [hasChoices |-> TRUE, choices |-> << >>]],
   [status |-> 200,
    data |-> [hasChoices |-> TRUE,
              choices |-> <<[hasMessage |-> FALSE, hasContent |-> FALSE,
                             content |-> ""]>>]],
   [status |-> 200,
    data |-> [hasChoices |-> TRUE,
              choices |-> <<[hasMessage |-> TRUE, hasContent |-> FALSE,
                             content |-> ""]>>]],
   [status |-> 200, data |-> [hasChoices |-> FALSE, choices |-> << >>]],
   [status |-> 500, data |-> [hasChoices |-> FALSE, choices |-> << >>]]>>

\* The state names a response by its place in ResponseList, 0 for none.
Responses == 1..Len(ResponseList)

-----------------------------------------------------------------------------
(* The state of one CompletionProvider, of the timers and requests of its  *)
(* runtime, and of the calls made to it.                                   *)

VARIABLES
  debounceTimeout,      \* this.debounceTimeout: 0 (null) or a timer handle
  lastRequest,          \* this.lastRequest: 0 (null) or a cancel source
  currentLanguage,      \* this.currentLanguage
  lastDefinedFunction,  \* this.lastDefinedFunction
  outputChannel,        \* the lines appended to this.outputChannel
  timers,               \* handle -> time left before it fires, -1: not armed
  cancelledTokens,      \* the cancel sources whose cancel() has been called
  inFlight,             \* the requests axios has sent and not settled
  server,               \* the requests the model server has yet to answer
  pc,                   \* call -> where its promise stands
  input,                \* call -> the (document, position) it was made with
  result,               \* call -> the value its promise resolved with
  sincePrevious,        \* time since the last trigger, capped at the delay
  history,              \* call -> what is recorded of its course
  san,                  \* the sanitizer applied to one raw text
  activation            \* the activation of the extension

vars ==
  <<debounceTimeout, lastRequest, currentLanguage, lastDefinedFunction,
    outputChannel, timers, cancelledTokens, inFlight, server, pc, input,
    result, sincePrevious, history, san, activation>>

providerVars ==
  <<debounceTimeout, lastRequest, currentLanguage, lastDefinedFunction>>

\* history[c]: quick, whether call c came less than the delay after the
\* call before it; runs, how often its pipeline was invoked; outcome, how
\* its pipeline ended ("none", "short", "cancelled", "timeout", "network",
\* "answered"); response, the answer it was given; prompt, the user prompt
\* it sent; superseded, whether a newer call came before it had settled.
NoHistory ==
  [quick |-> FALSE, runs |-> 0, outcome |-> "none", superseded |-> FALSE,
   response |-> 0,
   prompt |-> [kind |-> "none", line |-> "", name |-> "", args |-> "",
               language |-> "", intent |-> ""]]

\* san: the sanitizer applied outside the scheduler.  Under SanSpec it holds
\* a raw model text and a language, then the text sanitized once and the
\* result sanitized again; under TypeSpec a document and the parts of a raw
\* text with a type annotation, then the language of the document and the
\* text sanitized under it.
SanIdle ==
  [stage |-> "idle", raw |-> "", language |-> "javascript", once |-> "",
   twice |-> ""]

FieldsInit ==
  /\ debounceTimeout = 0
  /\ lastRequest = 0
  /\ currentLanguage = "javascript"
  /\ lastDefinedFunction = NoFunction
  /\ outputChannel = << >>
  /\ timers = [c \in Calls |-> -1]
  /\ cancelledTokens = {}
  /\ inFlight = {}
  /\ server = {}
  /\ pc = [c \in Calls |-> "none"]
  /\ input = [c \in Calls |-> 0]
  /\ result = [c \in Calls |-> << >>]
  /\ sincePrevious = DEBOUNCE_DELAY
  /\ history = [c \in Calls |-> NoHistory]

\* activation: probe is where the GET /models of activate stands, probes the
\* number of them sent, registered whether the provider is registered,
\* notices the messages shown to the user.
NotActivated ==
  [probe |-> "none", probes |-> 0, registered |-> FALSE, notices |-> << >>]

\* Whether activate registers the provider: in its try, after the probe.
Registers_Always(ok) == TRUE

Registers(ok) == ok

\* The message activate shows.
Notice(ok) ==
  IF ok
  THEN "LM Studio Completions activated! Start typing to see suggestions."
  ELSE "Failed to connect to LM Studio. Make sure it's running on port 1234."

\* The activation once the probe has ended, well (ok) or not.
Activated(ok) ==
  [probe |-> IF ok THEN "ok" ELSE "failed", probes |-> 1,
   registered |-> Registers(ok), notices |-> <<Notice(ok)>>]

\* A provider that activate has constructed and registered.
ProviderInit == FieldsInit /\ activation = Activated(TRUE)

Init == ProviderInit /\ san = SanIdle

\* The calls made so far are 1..NumCalls.
NumCalls == Cardinality({c \in Calls : pc[c] # "none"})

-----------------------------------------------------------------------------
(* The operations.                                                         *)

\* ClearedTimers without the clearTimeout.
ClearedTimers_NoClear(tm, handle) == tm

\* debounce: if (this.debounceTimeout) clearTimeout(this.debounceTimeout).
\* Clearing a timer that fired or was cleared changes nothing.
ClearedTimers(tm, handle) ==
  IF handle # 0 THEN [tm EXCEPT ![handle] = -1] ELSE tm

\* CancelRequested with one cancel source shared by all the requests: the
\* cancel reaches every one of them.
CancelRequested_Shared(request) == IF request # 0 THEN Calls ELSE {}

\* CancelRequested without the cancel.
CancelRequested_Never(request) == {}

\* debounce: if (this.lastRequest) this.lastRequest.cancel(...): the cancel
\* sources cancel() is called on.
CancelRequested(request) == IF request # 0 THEN {request} ELSE {}

\* Settled for a timer callback that calls fn and drops what it returns.
Settled_NoResolve(outcome) == "awaiting"

\* resolve(fn.apply(this, args)): the promise of the call follows the one
\* the debounced function returns.
Settled(outcome) == IF outcome.raised THEN "rejected" ELSE "resolved"

\* provideInlineCompletionItems(document, position, ...): the call arms its
\* timer and returns a pending promise.  A cancel() on the source of a
\* request in flight aborts it; its await rejects with a Cancel, which the
\* catch clause of that call handles before any other event is served.
Trigger(in) ==
  /\ activation.registered
  /\ NumCalls < MaxCalls
  /\ LET c == NumCalls + 1
         toCancel == CancelRequested(lastRequest)
         aborted == toCancel \cap inFlight
         handled == HandleError([cancel |-> TRUE,
                                 message |-> "New request initiated"])
     IN  /\ timers' = [ClearedTimers(timers, debounceTimeout)
                         EXCEPT ![c] = DEBOUNCE_DELAY]
         /\ debounceTimeout' = c
         /\ cancelledTokens' = cancelledTokens \cup toCancel
         /\ inFlight' = inFlight \ aborted
         /\ pc' = [k \in Calls |->
                     IF k = c THEN "pending"
                     ELSE IF k \in aborted THEN Settled(handled)
                     ELSE pc[k]]
         /\ result' = [k \in Calls |->
                         IF k \in aborted THEN handled.value ELSE result[k]]
         /\ outputChannel' =
              IF aborted = {} THEN outputChannel
              ELSE outputChannel \o handled.log
         /\ input' = [input EXCEPT ![c] = in]
         /\ history' = [k \in Calls |->
              IF k = c
              THEN [history[k] EXCEPT !.quick = sincePrevious < DEBOUNCE_DELAY]
              ELSE IF k \in aborted
              THEN [history[k] EXCEPT !.outcome = "cancelled",
                                      !.superseded = TRUE]
              ELSE IF pc[k] \in {"pending", "awaiting"}
              THEN [history[k] EXCEPT !.superseded = TRUE]
              ELSE history[k]]
         /\ sincePrevious' = 0
         /\ UNCHANGED <<lastRequest, currentLanguage, lastDefinedFunction,
                        server, san,
                 activation>>

\* Time passes: the armed timers come closer to firing.  A timer never fires
\* before its delay has passed; it may fire later.
Tick ==
  /\ \/ sincePrevious < DEBOUNCE_DELAY
     \/ \E c \in Calls : timers[c] > 0
  /\ timers' = [c \in Calls |->
                  IF timers[c] > TimeStep THEN timers[c] - TimeStep
                  ELSE IF timers[c] >= 0 THEN 0
                  ELSE -1]
  /\ sincePrevious' = IF sincePrevious + TimeStep < DEBOUNCE_DELAY
                      THEN sincePrevious + TimeStep
                      ELSE DEBOUNCE_DELAY
  /\ UNCHANGED <<providerVars, outputChannel, cancelledTokens, inFlight,
                 server, pc, input, result, history, san,
                 activation>>

\* return [] before the try block.
EarlyReturn == [raised |-> FALSE, value |-> << >>, log |-> << >>]

\* The function from its try to its axios.post: language is what
\* getLanguageContext computed, fn what analyzeCodeBlock leaves in
\* this.lastDefinedFunction, prompt what buildCompletionPrompt built.
Prepared(document, position, language, fn) ==
  [short |-> FALSE, language |-> language, fn |-> fn,
   prompt |-> buildCompletionPrompt(document, position,
                CurrentLineUptoCursor(document, position),
                getContextFromComments(document, position), language, fn)]

\* The function up to its return [] or its axios.post, this.lastDefinedFunction
\* being last when it starts.
Prepare(document, position, last) ==
  IF ShortCircuit(document, position)
  THEN [short |-> TRUE, language |-> "", fn |-> last, prompt |-> NoHistory.prompt]
  ELSE Prepared(document, position, getLanguageContext(document),
                AnalyzedFunction(document, position, last))

\* The values this.lastDefinedFunction takes with the inputs of the model.
Functions ==
  {NoFunction} \cup
  {AnalyzedFunction(DocumentOf(in), PositionOf(in), NoFunction) :
     in \in TriggerInputs}

\* Prepare for each input and each last function, computed once.
Preparation ==
  [in \in TriggerInputs, last \in Functions |->
     Prepare(DocumentOf(in), PositionOf(in), last)]

\* HandleResponse for each input, answer and language, computed once.
Handling ==
  [in \in TriggerInputs, response \in Responses, language \in Languages |->
     HandleResponse(ResponseList[response], DocumentOf(in), PositionOf(in),
                    language)]

\* The function up to its await of axios.post, for a call that is not cut
\* short: getLanguageContext stores the language, analyzeCodeBlock the last
\* function, and the new cancel source replaces this.lastRequest.
SendRequest(c, run) ==
  /\ currentLanguage' = run.language
  /\ lastDefinedFunction' = run.fn
  /\ lastRequest' = c
  /\ inFlight' = inFlight \cup {c}
  /\ server' = server \cup {c}
  /\ pc' = [pc EXCEPT ![c] = "awaiting"]
  /\ history' = [history EXCEPT ![c].runs = @ + 1, ![c].prompt = run.prompt]
  /\ UNCHANGED result

RunPipeline(c, run) ==
  IF run.short
  THEN /\ pc' = [pc EXCEPT ![c] = Settled(EarlyReturn)]
       /\ result' = [result EXCEPT ![c] = EarlyReturn.value]
       /\ history' = [history EXCEPT ![c].runs = @ + 1,
                                     ![c].outcome = "short"]
       /\ UNCHANGED <<lastRequest, currentLanguage, lastDefinedFunction,
                      inFlight, server>>
  ELSE SendRequest(c, run)

\* The timer of call c fires: the debounced function runs up to its return
\* [] or to its await of axios.post.
TimerFire(c) ==
  /\ timers[c] = 0
  /\ timers' = [timers EXCEPT ![c] = -1]
  /\ RunPipeline(c, Preparation[input[c], lastDefinedFunction])
  /\ UNCHANGED <<debounceTimeout, outputChannel, cancelledTokens, input,
                 sincePrevious, san,
                 activation>>

\* The await of call c ends with outcome [raised, value, log].
Finish(c, outcome, how, response) ==
  /\ pc' = [pc EXCEPT ![c] = Settled(outcome)]
  /\ result' = [result EXCEPT ![c] = outcome.value]
  /\ outputChannel' = outputChannel \o outcome.log
  /\ history' = [history EXCEPT ![c].outcome = how, ![c].response = response]

\* The model server answers request r.  The answer to a request that is no
\* longer in flight (aborted by a cancel or by the timeout) reaches nobody.
Respond(r, response) ==
  /\ r \in server
  /\ server' = server \ {r}
  /\ IF r \in inFlight
     THEN /\ inFlight' = inFlight \ {r}
          /\ Finish(r, Handling[input[r], response, currentLanguage],
                    "answered", response)
     ELSE UNCHANGED <<inFlight, pc, result, outputChannel, history>>
  /\ UNCHANGED <<providerVars, timers, cancelledTokens, input, sincePrevious,
                 san,
                 activation>>

\* The connection of request r fails: axios.post rejects with an Error.
NetworkError(r) ==
  /\ r \in inFlight
  /\ inFlight' = inFlight \ {r}
  /\ server' = server \ {r}
  /\ Finish(r, HandleError([cancel |-> FALSE, message |-> "Network Error"]),
            "network", 0)
  /\ UNCHANGED <<providerVars, timers, cancelledTokens, input, sincePrevious,
                 san,
                 activation>>

\* No answer within the timeout of the request (timeout: 10000): axios
\* aborts it and axios.post rejects with an Error.  The server may answer
\* later.
Timeout(r) ==
  /\ r \in inFlight
  /\ inFlight' = inFlight \ {r}
  /\ Finish(r, HandleError([cancel |-> FALSE,
                            message |-> "timeout of 10000ms exceeded"]),
            "timeout", 0)
  /\ UNCHANGED <<providerVars, timers, cancelledTokens, server, input,
                 sincePrevious, san,
                 activation>>

Next ==
  \/ \E in \in TriggerInputs : Trigger(in)
  \/ Tick
  \/ \E c \in Calls : TimerFire(c)
  \/ \E r \in Calls, response \in Responses : Respond(r, response)
  \/ \E r \in Calls : NetworkError(r)
  \/ \E r \in Calls : Timeout(r)

Spec == Init /\ [][Next]_vars

\* The timers of the runtime fire, time passes, and every request ends: the
\* server answers it, its connection fails, or its timeout expires.
Fairness ==
  /\ WF_vars(Tick)
  /\ \A c \in Calls : WF_vars(TimerFire(c))
  /\ \A r \in Calls :
       WF_vars((\E response \in Responses : Respond(r, response))
               \/ NetworkError(r) \/ Timeout(r))

FairSpec == Spec /\ Fairness

-----------------------------------------------------------------------------
(* The extension from its activation on: activate probes the model server  *)
(* once and registers the provider when the probe succeeds; the editor     *)
(* calls a registered provider only.                                       *)

ActInit == FieldsInit /\ activation = NotActivated /\ san = SanIdle

\* The editor activates the extension: await axios.get(.../models).
Activate ==
  /\ activation.probe = "none"
  /\ activation' = [activation EXCEPT !.probe = "pending", !.probes = @ + 1]
  /\ UNCHANGED <<providerVars, outputChannel, timers, cancelledTokens,
                 inFlight, server, pc, input, result, sincePrevious, history,
                 san>>

\* The probe ends: with a 2xx answer (ok) or with a rejection.
ProbeEnds(ok) ==
  /\ activation.probe = "pending"
  /\ activation' = [Activated(ok) EXCEPT !.probes = activation.probes]
  /\ UNCHANGED <<providerVars, outputChannel, timers, cancelledTokens,
                 inFlight, server, pc, input, result, sincePrevious, history,
                 san>>

ActNext ==
  \/ Activate
  \/ \E ok \in BOOLEAN : ProbeEnds(ok)
  \/ Next

ActSpec == ActInit /\ [][ActNext]_vars

-----------------------------------------------------------------------------
(* The sanitizer on its own: every raw text of up to MaxTokens tokens, in  *)
(* either language, sanitized and sanitized again.                         *)

MaxTokens == 3

SanTokens ==
  {"a", " ", "\n", "//", FENCE, ": T", ",", "console.log(", DQUOTE, ")"}

Concat(tokens) ==
  LET R[k \in 1..(Len(tokens) + 1)] ==
        IF k > Len(tokens) THEN "" ELSE tokens[k] \o R[k + 1]
  IN  R[1]

RawTexts ==
  UNION {{Concat(tokens) : tokens \in [1..k -> SanTokens]} : k \in 0..MaxTokens}

SanInit ==
  /\ ProviderInit
  /\ san \in {[stage |-> "raw", raw |-> raw, language |-> language,
               once |-> "", twice |-> ""] :
                raw \in RawTexts, language \in Languages}

SanitizeOnce ==
  /\ san.stage = "raw"
  /\ san' = [san EXCEPT !.stage = "once",
                        !.once = Sanitize(san.raw, san.language)]
  /\ UNCHANGED <<providerVars, outputChannel, timers, cancelledTokens,
                 inFlight, server, pc, input, result, sincePrevious, history,
                 activation>>

SanitizeAgain ==
  /\ san.stage = "once"
  /\ san' = [san EXCEPT !.stage = "twice",
                        !.twice = Sanitize(san.once, san.language)]
  /\ UNCHANGED <<providerVars, outputChannel, timers, cancelledTokens,
                 inFlight, server, pc, input, result, sincePrevious, history,
                 activation>>

SanNext == SanitizeOnce \/ SanitizeAgain

SanSpec == SanInit /\ [][SanNext]_vars

-----------------------------------------------------------------------------
(* The language profile and the type stripping on their own: a document,   *)
(* and a raw text pre ": " type follow post holding one type annotation;   *)
(* getLanguageContext picks the language, the text is sanitized under it.  *)

ProfileLanguageIds == {"typescript", "javascript", "typescriptreact"}

ProfilePaths ==
  {"/work/a.ts", "/work/a.tsx", "/work/a.js", "/work/A.TS", "/work/notes"}

AnnotationPrefixes == {"const x", "(a", "console.log(" \o DQUOTE \o "a"}

AnnotationTypes == {"number", "T"}

AnnotationFollowers == {" ", ",", ")", "\n", ";"}

AnnotationSuffixes == {"= 5;", "", DQUOTE \o ")"}

\* The raw text made of the parts in t.
AnnotatedText(t) == t.pre \o ": " \o t.type \o t.follow \o t.post

\* The same text without its annotation.
PlainText(t) == t.pre \o t.follow \o t.post

TypeInit ==
  /\ ProviderInit
  /\ san \in {[stage |-> "annotated", pre |-> pre, type |-> type,
               follow |-> follow, post |-> post,
               document |-> [languageId |-> languageId, fsPath |-> fsPath,
                             lines |-> <<"">>],
               language |-> "", once |-> ""] :
                pre \in AnnotationPrefixes, type \in AnnotationTypes,
                follow \in AnnotationFollowers, post \in AnnotationSuffixes,
                languageId \in ProfileLanguageIds, fsPath \in ProfilePaths}

\* getLanguageContext(document), then the answer sanitized under the language
\* it stored.
SanitizeAnnotated ==
  /\ san.stage = "annotated"
  /\ san' = [san EXCEPT
       !.stage = "stripped",
       !.language = getLanguageContext(san.document),
       !.once = Sanitize(AnnotatedText(san), getLanguageContext(san.document))]
  /\ UNCHANGED <<providerVars, outputChannel, timers, cancelledTokens,
                 inFlight, server, pc, input, result, sincePrevious, history,
                 activation>>

TypeNext == SanitizeAnnotated

TypeSpec == TypeInit /\ [][TypeNext]_vars

-----------------------------------------------------------------------------
(* The pipeline on its own: one provider whose debounced function is run   *)
(* MaxRounds times, one run after the other, each on a document and a      *)
(* position and, unless cut short, answered with a content.  The debounce  *)
(* runs one pipeline at a time, so this is what a provider goes through    *)
(* whatever the timing of its triggers.                                    *)

MaxRounds == 2

\* Declarations with no parameter, with parameters of every kind.
PlainDocument ==
  [languageId |-> "javascript", fsPath |-> "/work/plain.js",
   lines |-> <<"function f() {",
               "",
               "   ",
               "function mix(s: string, xs: array, ok: boolean, other, ns: number[]) {",
               "  // first",
               "">>]

\* Runs of comment lines.
CommentDocument ==
  [languageId |-> "javascript", fsPath |-> "/work/notes.js",
   lines |-> <<"// zero",
               "let one = 1",
               "// two",
               "  // three",
               "  ",
               "// five",
               "// six",
               "// seven",
               "",
               "",
               "">>]

At(document, line, character) ==
  [document |-> document, position |-> [line |-> line, character |-> character]]

SeqInputList ==
  InputList \o
  <<At(TsDocument, 0, 18), At(TsDocument, 1, 36),
    At(PlainDocument, 1, 0), At(PlainDocument, 2, 3), At(PlainDocument, 4, 10),
    At(PlainDocument, 5, 0),
    At(CommentDocument, 0, 7), At(CommentDocument, 1, 11),
    At(CommentDocument, 3, 10), At(CommentDocument, 4, 2),
    At(CommentDocument, 7, 8), At(CommentDocument, 8, 0),
    At(CommentDocument, 10, 0)>>

SeqInputs == 1..Len(SeqInputList)

SeqContents ==
  {"hello", "const y", "const total = add(1, 2);", "// nothing\n", "",
   "x)", SQUOTE \o "a" \o SQUOTE, "value: T)",
   FENCE \o "javascript\n(a: number, 1);\n" \o FENCE}

\* san under SeqSpec: the run in hand.  before is this.lastDefinedFunction
\* when the run starts, prepared what Prepare computed, recent the
\* recentlyDefinedFunction of analyzeCodeBlock, fixed the completion after
\* the open-string special case, value what the run returns.
SeqIdle ==
  [stage |-> "idle", round |-> 0, in |-> 0, before |-> NoFunction,
   prepared |-> Prepare(TsDocument, [line |-> 0, character |-> 0], NoFunction),
   recent |-> FALSE, content |-> "", fixed |-> "", value |-> << >>]

SeqInit == ProviderInit /\ san = SeqIdle

\* The values this.lastDefinedFunction takes with the inputs of SeqSpec.
SeqFunctions ==
  {NoFunction} \cup
  {AnalyzedFunction(SeqInputList[in].document, SeqInputList[in].position,
                    NoFunction) : in \in SeqInputs}

\* Prepare for each input and each last function, computed once.
SeqPreparation ==
  [in \in SeqInputs, last \in SeqFunctions |->
     Prepare(SeqInputList[in].document, SeqInputList[in].position, last)]

\* What the function makes of a 200 answer with the content, and the
\* completion as it stands after the open-string special case.
Answered200(content, document, position, language) ==
  [fixed |-> OpenStringFix(Sanitize(content, language),
                           CurrentLineUptoCursor(document, position)),
   outcome |-> HandleResponse([status |-> 200, data |-> Body(content)],
                              document, position, language)]

\* Answered200 for each input, content and language, computed once.
SeqHandling ==
  [in \in SeqInputs, content \in SeqContents, language \in Languages |->
     Answered200(content, SeqInputList[in].document,
                 SeqInputList[in].position, language)]

\* A run starts: it ends at once when it is cut short, and asks the server
\* otherwise.
SeqStart(in, run) ==
  /\ san' = [stage |-> IF run.short THEN "done" ELSE "asked",
             round |-> san.round + 1, in |-> in,
             before |-> lastDefinedFunction, prepared |-> run,
             recent |-> ~run.short /\
                        RecentlyDefined(run.fn, SeqInputList[in].position),
             content |-> "", fixed |-> "", value |-> << >>]
  /\ currentLanguage' = IF run.short THEN currentLanguage ELSE run.language
  /\ lastDefinedFunction' = run.fn
  /\ UNCHANGED <<debounceTimeout, lastRequest, outputChannel, timers,
                 cancelledTokens, inFlight, server, pc, input, result,
                 sincePrevious, history,
                 activation>>

SeqInvoke(in) ==
  /\ san.stage \in {"idle", "done"}
  /\ san.round < MaxRounds
  /\ SeqStart(in, SeqPreparation[in, lastDefinedFunction])

\* The server answers 200 with the content: outcome is what the function
\* makes of it.
SeqFinish(content, handled) ==
  /\ san' = [san EXCEPT !.stage = "done", !.content = content,
                        !.fixed = handled.fixed,
                        !.value = handled.outcome.value]
  /\ outputChannel' = outputChannel \o handled.outcome.log
  /\ UNCHANGED <<providerVars, timers, cancelledTokens, inFlight, server, pc,
                 input, result, sincePrevious, history,
                 activation>>

SeqAnswer(content) ==
  /\ san.stage = "asked"
  /\ SeqFinish(content, SeqHandling[san.in, content, currentLanguage])

SeqNext ==
  \/ \E in \in SeqInputs : SeqInvoke(in)
  \/ \E content \in SeqContents : SeqAnswer(content)

SeqSpec == SeqInit /\ [][SeqNext]_vars

-----------------------------------------------------------------------------
(* The properties of the specification, C1 to C23.                         *)

\* Whether call c sent its HTTP request.
RequestSent(c) == history[c].prompt.kind # "none"

\* The error entries of the output channel.
ErrorEntries ==
  Cardinality({i \in 1..Len(outputChannel) :
                 StartsWith(outputChannel[i], "Error: ")})

\* The answer call c was given.
ResponseOf(c) == ResponseList[history[c].response]

Answered(c) == history[c].outcome = "answered"

\* The request of call c ended in a timeout or a transport error.
TransportFailed(c) ==
  \/ history[c].outcome \in {"timeout", "network"}
  \/ Answered(c) /\ (ResponseOf(c).status < 200 \/ ResponseOf(c).status >= 300)

\* A 2xx answer without choices.
Malformed(c) ==
  /\ Answered(c)
  /\ ResponseOf(c).status = 200
  /\ ~ResponseOf(c).data.hasChoices

\* A body with no content: no choice, no message, no content, or "".
NoContent(data) ==
  \/ ~data.hasChoices
  \/ Len(data.choices) = 0
  \/ ~data.choices[1].hasMessage
  \/ ~data.choices[1].hasContent
  \/ data.choices[1].content = ""

\* C1: in a burst of triggers, each less than DEBOUNCE_DELAY after the one
\* before, every trigger but the last runs no pipeline, sends no request
\* and stays unresolved; and a call a newer trigger superseded never
\* resolves with a suggestion.
C1_OnlyLastOfBurstRuns ==
  \A c \in Calls :
    /\ (c + 1 \in Calls /\ pc[c + 1] # "none" /\ history[c + 1].quick) =>
         /\ history[c].runs = 0
         /\ ~RequestSent(c)
         /\ pc[c] = "pending"
         /\ result[c] = << >>
    /\ history[c].superseded => result[c] = << >>

\* The last trigger of a burst has run to a suggestion, the one before it
\* never ran.
C1_Witness ==
  \E c \in Calls :
    /\ c > 1
    /\ history[c].quick
    /\ pc[c] = "resolved"
    /\ result[c] # << >>
    /\ history[c - 1].runs = 0

\* C2: at most one debounce timer is armed and at most one completion
\* request is in flight.
C2_SingleTimerSingleFlight ==
  /\ Cardinality({c \in Calls : timers[c] >= 0}) <= 1
  /\ Cardinality(inFlight) <= 1

\* A second request is in flight after the first one was cancelled.
C2_Witness ==
  \E c \in Calls :
    /\ c > 1
    /\ inFlight = {c}
    /\ history[c - 1].outcome = "cancelled"

\* C3: every call of provideInlineCompletionItems eventually resolves with
\* a list (a suggestion list or the empty list), and none raises.
C3_EveryCallTerminates ==
  /\ [](\A c \in Calls : pc[c] # "rejected")
  /\ \A c \in Calls : (pc[c] = "pending") ~> (pc[c] = "resolved")

\* C4: a call whose timer fired ran its pipeline exactly once and resolves
\* with what the pipeline returned (the empty list when cut short,
\* cancelled or failed; the suggestion made of the answer otherwise), a
\* call resolves only through its pipeline, and the last call made is
\* eventually resolved.
C4_FiredTimerResolves ==
  /\ [](\A c \in Calls :
          /\ history[c].runs <= 1
          /\ pc[c] \in {"awaiting", "resolved"} => history[c].runs = 1
          /\ pc[c] = "pending" /\ timers[c] = -1 => history[c].superseded
          /\ history[c].outcome # "none" => pc[c] = "resolved"
          /\ history[c].outcome \in {"short", "cancelled", "timeout", "network"}
               => result[c] = << >>
          /\ Answered(c) /\ input[c] = 4 /\ history[c].response = 1
               => result[c] = <<Item("  const total = addhello", 1, 0, 1, 19)>>)
  /\ \A c \in Calls : <>[](NumCalls = c) => <>(pc[c] = "resolved")

\* A call that no newer trigger superseded has resolved with a suggestion.
C4_Witness ==
  \E c \in Calls :
    /\ pc[c] = "resolved"
    /\ ~history[c].superseded
    /\ history[c].runs = 1
    /\ result[c] # << >>

\* C5: a call whose request was in flight when a newer trigger came resolves
\* with the empty list, whatever the server answers afterwards, and the
\* output channel holds no error entry beyond those of the failed requests.
C5_CancelledYieldsEmpty ==
  /\ \A c \in Calls :
       history[c].superseded /\ RequestSent(c) =>
         /\ pc[c] = "resolved"
         /\ result[c] = << >>
         /\ history[c].outcome = "cancelled"
  /\ ErrorEntries <=
       Cardinality({c \in Calls : TransportFailed(c) \/ Malformed(c)})

\* The server has answered a request that was cancelled in flight.
C5_Witness ==
  \E c \in Calls :
    /\ history[c].superseded
    /\ RequestSent(c)
    /\ c \notin server
    /\ result[c] = << >>

\* C6: a call whose request timed out or failed in transport resolves with
\* the empty list, raises nothing, has its error entry in the output
\* channel, and holds no request any more.
C6_FailureYieldsEmpty ==
  /\ \A c \in Calls :
       TransportFailed(c) =>
         /\ pc[c] = "resolved"
         /\ result[c] = << >>
         /\ c \notin inFlight
  /\ ErrorEntries >= Cardinality({c \in Calls : TransportFailed(c)})

\* After a request that timed out, a later call resolved with a suggestion.
C6_Witness ==
  \E c \in Calls :
    /\ c > 1
    /\ history[c - 1].outcome = "timeout"
    /\ pc[c] = "resolved"
    /\ result[c] # << >>

\* C7: a 2xx answer whose body has no content, or no choices at all,
\* resolves the call with the empty list.
C7_NoContentYieldsEmpty ==
  \A c \in Calls :
    Answered(c) /\ ResponseOf(c).status = 200 /\ NoContent(ResponseOf(c).data)
      => pc[c] = "resolved" /\ result[c] = << >>

\* A call was answered with a body without choices, on the blank line under
\* a comment.
C7_Witness ==
  \E c \in Calls : Malformed(c) /\ pc[c] = "resolved" /\ input[c] = 1

\* C8: no returned suggestion has a text that is empty, white space only,
\* or equal to the text typed on the line up to the cursor.
C8_NoEmptySuggestion ==
  \A c \in Calls :
    \A i \in 1..Len(result[c]) :
      /\ Trim(result[c][i].text) # ""
      /\ result[c][i].text #
           CurrentLineUptoCursor(DocumentOf(input[c]), PositionOf(input[c]))

\* C9: sanitizing a sanitized text gives the same text.
C9_SanitizeIdempotent == san.stage = "twice" => san.twice = san.once

\* C10: a suggestion returned in the general case (not on a blank line
\* under a comment) has a text that starts with the text typed on the line
\* up to the cursor.
C10_KeepsTypedPrefix ==
  \A c \in Calls :
    \A i \in 1..Len(result[c]) :
      ~(/\ IsEmptyLine(DocumentOf(input[c]), PositionOf(input[c]))
        /\ getContextFromComments(DocumentOf(input[c]),
                                  PositionOf(input[c])) # "")
        => StartsWith(result[c][i].text,
                      CurrentLineUptoCursor(DocumentOf(input[c]),
                                            PositionOf(input[c])))

\* The path ends with a dot and the extension ext, in whatever case.
HasExtension(fsPath, ext) == EndsWith(ToLowerCase(fsPath), "." \o ext)

\* C11: the language is typescript iff the language id of the document is
\* typescript or its file extension is ts or tsx, and javascript otherwise;
\* under javascript a type annotation followed by white space, "," or ")" is
\* removed, so the sanitized text is that of the raw text without the
\* annotation, and "const x: number = 5;" gives "const x = 5;"; under
\* typescript the annotation stays, and "const x: number = 5;" is returned
\* as it is.
C11_TypeStripping ==
  san.stage = "stripped" =>
    /\ san.language = "typescript" <=>
          \/ san.document.languageId = "typescript"
          \/ HasExtension(san.document.fsPath, "ts")
          \/ HasExtension(san.document.fsPath, "tsx")
    /\ san.language # "typescript" => san.language = "javascript"
    /\ san.language = "javascript" /\ san.follow \in {" ", "\n", ",", ")"}
         => san.once = Sanitize(PlainText(san), "javascript")
    /\ san.language = "typescript" => Includes(san.once, ": " \o san.type)
    /\ AnnotatedText(san) = "const x: number = 5;" =>
         san.once = IF san.language = "javascript" THEN "const x = 5;"
                    ELSE "const x: number = 5;"

\* A word: letters, digits and underscores only, at least one.
IsBareWord(s) == s # "" /\ \A i \in 1..Len(s) : Char(s, i) \in WordChars

\* The content of the answer call c was given.
ContentOf(c) == ResponseOf(c).data.choices[1].content

\* The text typed on the line of call c up to its cursor.
TypedPrefix(c) ==
  CurrentLineUptoCursor(DocumentOf(input[c]), PositionOf(input[c]))

\* C12: a call made with console.log(" typed up to the cursor and answered
\* with a bare word resolves with one suggestion whose text is exactly
\* console.log("word"): console.log("hello") for hello.
C12_ConsoleLogBareWord ==
  \A c \in Calls :
    /\ Answered(c)
    /\ ResponseOf(c).status = 200
    /\ ~NoContent(ResponseOf(c).data)
    /\ IsBareWord(ContentOf(c))
    /\ TypedPrefix(c) = "console.log(" \o DQUOTE
    => /\ Len(result[c]) = 1
       /\ result[c][1].text =
            "console.log(" \o DQUOTE \o ContentOf(c) \o DQUOTE \o ")"

\* The call on the line console.log(" was answered hello.
C12_Witness ==
  \E c \in Calls :
    /\ Answered(c)
    /\ TypedPrefix(c) = "console.log(" \o DQUOTE
    /\ ResponseOf(c).status = 200
    /\ ~NoContent(ResponseOf(c).data)
    /\ ContentOf(c) = "hello"
    /\ result[c] # << >>

\* The document and the position of the run in hand under SeqSpec.
SeqDocument == SeqInputList[san.in].document

SeqPosition == SeqInputList[san.in].position

\* The run in hand has returned a suggestion.
SeqSuggested == san.stage = "done" /\ san.value # << >>

\* The line of the cursor is blank and lines with a comment lie in the five
\* lines that end with it.
BlankUnderComment(document, position) ==
  /\ Trim(LineAt(document, position.line)) = ""
  /\ \E l \in Max({0, position.line - 4})..position.line :
       StartsWith(Trim(LineAt(document, l)), "//")

ZeroWidthAt(range, position) == range.start = position /\ range.end = position

FromLineStart(range, position) ==
  /\ range.start = [line |-> position.line, character |-> 0]
  /\ range.end = position

\* C13 as stated: the range of a returned suggestion is the zero-width range
\* at the cursor iff the line is blank and the comment context is not empty.
C13_ZeroWidthIffBlankUnderComment ==
  SeqSuggested =>
    (ZeroWidthAt(san.value[1].range, SeqPosition)
       <=> BlankUnderComment(SeqDocument, SeqPosition))

\* C13, amended: the range of a returned suggestion is the zero-width range
\* at the cursor when the line is blank and the comment context is not
\* empty, and in every other case the range from column 0 of the line of the
\* cursor to the cursor, which is itself of zero width when the cursor is at
\* column 0.
C13_RangeChoice ==
  SeqSuggested =>
    /\ Len(san.value) = 1
    /\ IF BlankUnderComment(SeqDocument, SeqPosition)
       THEN ZeroWidthAt(san.value[1].range, SeqPosition)
       ELSE FromLineStart(san.value[1].range, SeqPosition)

\* A suggestion was returned on a blank line under a comment with the cursor
\* past column 0.
C13_Witness ==
  /\ SeqSuggested
  /\ BlankUnderComment(SeqDocument, SeqPosition)
  /\ SeqPosition.character > 0
  /\ ZeroWidthAt(san.value[1].range, SeqPosition)

\* C14: the provider is registered iff the probe of the activation has
\* succeeded; after a failed probe exactly one notice, the failure notice,
\* has been shown, no second probe is ever sent, no call is made to the
\* provider and no completion request reaches the model server.
C14_RegisteredIffProbeSucceeds ==
  /\ activation.registered <=> activation.probe = "ok"
  /\ activation.probes <= 1
  /\ activation.probe = "failed" =>
       /\ activation.notices = <<Notice(FALSE)>>
       /\ activation.probes = 1
       /\ NumCalls = 0
       /\ server = {} /\ inFlight = {}
       /\ \A c \in Calls : ~RequestSent(c)
  /\ activation.probe \in {"none", "pending"} => activation.notices = << >>

\* The probe has failed and the notice is shown.
C14_Witness ==
  /\ activation.probe = "failed"
  /\ Len(activation.notices) = 1
  /\ ~activation.registered

\* The text from the start of the line CONTEXT_BLOCK_SIZE lines above the
\* cursor to the cursor holds a declaration with a parameter list.
\* The inputs of Spec are the first inputs of SeqSpec.
DeclarationInWindow ==
  [in \in SeqInputs |->
     Len(FunctionDeclarations(ContextText(SeqInputList[in].document,
                                          SeqInputList[in].position))) > 0]

\* This step is the pipeline of call c running to its request.
PipelineRuns(c) ==
  /\ timers[c] = 0
  /\ timers'[c] = -1
  /\ pc'[c] = "awaiting"
  /\ history'[c].runs = history[c].runs + 1

\* C15: the last defined function, once set, is never unset, and a step
\* changes it only when the step is a pipeline run whose window holds a
\* declaration with a parameter list: a run without one, a run cut short, a
\* trigger, a cancellation and an answer leave it as it is.
C15_LastFunctionKept ==
  [][/\ lastDefinedFunction.set => lastDefinedFunction'.set
     /\ lastDefinedFunction' # lastDefinedFunction =>
          \E c \in Calls : PipelineRuns(c) /\ DeclarationInWindow[input[c]]]_vars

\* The function set by one run has outlived a later run whose window holds
\* no declaration.
C15_Witness ==
  \E c \in Calls :
    /\ c > 1
    /\ RequestSent(c)
    /\ ~DeclarationInWindow[input[c]]
    /\ lastDefinedFunction.set

\* The run in hand under SeqSpec went past the short-circuit test.
SeqRan == san.stage \in {"asked", "done"} /\ ~san.prepared.short

\* C16: in a run, the recently-defined flag is true iff the last defined
\* function, as the run leaves it, is set with the line above the cursor as
\* its line; a run whose window holds a declaration stores it with that line
\* and so has the flag true; a run whose window holds none keeps the function
\* it found and has the flag true only if that one was stored by a run at
\* the same cursor line.
C16_RecentFlag ==
  SeqRan =>
    /\ san.recent <=>
         /\ lastDefinedFunction.set
         /\ lastDefinedFunction.line = SeqPosition.line - 1
    /\ DeclarationInWindow[san.in] =>
         /\ san.recent
         /\ lastDefinedFunction.line = SeqPosition.line - 1
    /\ ~DeclarationInWindow[san.in] =>
         /\ lastDefinedFunction = san.before
         /\ san.recent <=>
              (san.before.set /\ san.before.line + 1 = SeqPosition.line)

\* The flag is true in a run whose window holds no declaration: the function
\* was stored by an earlier run at the same cursor line.
C16_Witness ==
  /\ SeqRan
  /\ ~DeclarationInWindow[san.in]
  /\ san.recent

\* The text before the cursor on its line starts, white space aside, with
\* the comment marker.
CursorInComment ==
  StartsWith(TrimLeft(CurrentLineUptoCursor(SeqDocument, SeqPosition)), "//")

\* The last defined function is set with the line above the cursor.
FlagStands ==
  lastDefinedFunction.set /\ lastDefinedFunction.line = SeqPosition.line - 1

\* C17: the prompt of a run is the documentation-comment prompt, holding the
\* text of the line up to the cursor and nothing else, when the cursor is in
\* a comment, whatever the recently-defined flag; otherwise the usage prompt
\* of the last defined function when the flag is true; otherwise the general
\* prompt.
C17_PromptPriority ==
  SeqRan =>
    IF CursorInComment
    THEN san.prepared.prompt =
           [kind |-> "comment",
            line |-> CurrentLineUptoCursor(SeqDocument, SeqPosition),
            name |-> "", args |-> "", language |-> "", intent |-> ""]
    ELSE IF FlagStands
    THEN /\ san.prepared.prompt.kind = "usage"
         /\ san.prepared.prompt.name = lastDefinedFunction.name
    ELSE san.prepared.prompt.kind = "general"

\* A run with the cursor in a comment and the flag true got the comment
\* prompt.
C17_Witness ==
  /\ SeqRan
  /\ CursorInComment
  /\ FlagStands
  /\ san.prepared.prompt.kind = "comment"

\* The parameters the documents declare for each of their functions.
DeclaredParameters(name) ==
  IF name = "add" THEN <<"a: number", "b: number">>
  ELSE IF name = "mix"
  THEN <<"s: string", "xs: array", "ok: boolean", "other", "ns: number[]">>
  ELSE << >>

\* The literal of a parameter, by the first rule that matches its text.
LiteralOf(param) ==
  CASE Includes(param, "number") -> "42"
    [] ~Includes(param, "number") /\ Includes(param, "string") ->
         DQUOTE \o "example" \o DQUOTE
    [] /\ ~Includes(param, "number") /\ ~Includes(param, "string")
       /\ (Includes(param, "array") \/ Includes(param, "[]")) -> "[1, 2, 3]"
    [] /\ ~Includes(param, "number") /\ ~Includes(param, "string")
       /\ ~Includes(param, "array") /\ ~Includes(param, "[]")
       /\ Includes(param, "boolean") -> "true"
    [] OTHER -> "undefined"

\* C18: the usage prompt calls the function with one literal for each
\* parameter it declares, in the order of the declaration, each by the first
\* rule that matches: 42, 42 for add(a: number, b: number), and no literal
\* for a function that declares no parameter.
C18_OneLiteralPerParameter ==
  SeqRan /\ san.prepared.prompt.kind = "usage" =>
    san.prepared.prompt.args =
      JoinComma([i \in 1..Len(DeclaredParameters(san.prepared.prompt.name)) |->
                   LiteralOf(DeclaredParameters(san.prepared.prompt.name)[i])])

\* The five lines the comment context may come from.
WindowLines(position) == {l \in 0..position.line : l >= position.line - 4}

IsCommentLine(document, l) == StartsWith(Trim(LineAt(document, l)), "//")

CommentLines(document, position) ==
  {l \in WindowLines(position) : IsCommentLine(document, l)}

\* The comment line met first when scanning upward from the cursor line.
RunBottom(document, position) ==
  CHOOSE l \in CommentLines(document, position) :
    \A k \in CommentLines(document, position) : k <= l

\* The lines of the contiguous run of comment lines that ends there.
RunLines(document, position) ==
  {l \in WindowLines(position) :
     /\ l <= RunBottom(document, position)
     /\ \A k \in l..RunBottom(document, position) : IsCommentLine(document, k)}

\* The trimmed lines from..to, each followed by a line feed, top to bottom.
JoinLines(document, from, to) ==
  LET R[l \in from..(to + 1)] ==
        IF l > to THEN ""
        ELSE Trim(LineAt(document, l)) \o "\n" \o R[l + 1]
  IN  R[from]

CommentRun(document, position) ==
  IF CommentLines(document, position) = {} THEN ""
  ELSE JoinLines(document,
                 CHOOSE l \in RunLines(document, position) :
                   \A k \in RunLines(document, position) : l <= k,
                 RunBottom(document, position))

\* C19: the comment context of a run is the contiguous run of comment lines
\* met first when scanning upward from the cursor line within the five lines
\* that end at the cursor line, top to bottom, and is empty when these lines
\* hold no comment; the intent of a general prompt is this context when it is
\* not empty and "Continue the logical flow" only when it is empty.
C19_CommentContext ==
  SeqRan =>
    /\ getContextFromComments(SeqDocument, SeqPosition) =
         CommentRun(SeqDocument, SeqPosition)
    /\ san.prepared.prompt.kind = "general" =>
         san.prepared.prompt.intent =
           IF CommentRun(SeqDocument, SeqPosition) # ""
           THEN CommentRun(SeqDocument, SeqPosition)
           ELSE "Continue the logical flow"

\* A general prompt whose intent is a run of two comment lines, with another
\* comment line above the line that ends the run.
C19_Witness ==
  /\ SeqRan
  /\ san.prepared.prompt.kind = "general"
  /\ san.prepared.prompt.intent = "// two\n// three\n"
  /\ Cardinality(CommentLines(SeqDocument, SeqPosition)) = 3

\* The sanitized text of the answer of the run in hand.
SeqSanitized == Sanitize(san.content, san.prepared.language)

\* The run in hand reached the open-string special case on a line that holds
\* console.log( with a sanitized text that has no quote and no closing
\* parenthesis at its end.
OpenStringCase ==
  /\ SeqRan
  /\ san.stage = "done"
  /\ san.content # ""
  /\ Includes(CurrentLineUptoCursor(SeqDocument, SeqPosition), "console.log(")
  /\ ~Includes(SeqSanitized, DQUOTE)
  /\ ~Includes(SeqSanitized, SQUOTE)
  /\ ~EndsWith(SeqSanitized, ")")

\* C20: on a line up to the cursor that holds console.log( , a sanitized
\* text with no quote character and no ")" at its end leaves the open-string
\* special case beginning with a quote and ending with a closing quote
\* followed by ")".
C20_OpenStringQuoted ==
  OpenStringCase =>
    /\ StartsWith(san.fixed, DQUOTE) \/ StartsWith(san.fixed, SQUOTE)
    /\ EndsWith(san.fixed, DQUOTE \o ")")

\* The input has no comment context, a current line that is not blank and
\* fewer than two characters of trimmed text before the cursor.
CutShort(in) ==
  /\ CommentRun(DocumentOf(in), PositionOf(in)) = ""
  /\ Trim(LineAt(DocumentOf(in), PositionOf(in).line)) # ""
  /\ Len(Trim(SubstringTo(LineAt(DocumentOf(in), PositionOf(in).line),
                          PositionOf(in).character))) < 2

\* This step is the timer of call c firing and its pipeline running.
TimerFires(c) == history'[c].runs = history[c].runs + 1

\* C21: when the timer of a call fires, the pipeline returns the empty list
\* and sends no request iff the comment context is empty, the current line
\* is not blank and the trimmed text before the cursor has fewer than two
\* characters, and the language, the last defined function and the stored
\* cancel source are then left as they were; in every other case, a blank
\* line without a comment context included, one request is sent; a request
\* is sent by no other step, and no pipeline runs twice.
C21_ShortCircuitFrame ==
  [][\A c \in Calls :
       /\ c \in server' \ server => TimerFires(c)
       /\ TimerFires(c) =>
            /\ history[c].runs = 0
            /\ IF CutShort(input[c])
               THEN /\ pc'[c] = "resolved"
                    /\ result'[c] = << >>
                    /\ server' = server
                    /\ inFlight' = inFlight
                    /\ UNCHANGED <<currentLanguage, lastDefinedFunction,
                                   lastRequest>>
               ELSE /\ c \notin server
                    /\ c \notin inFlight
                    /\ server' = server \cup {c}
                    /\ inFlight' = inFlight \cup {c}
                    /\ pc'[c] = "awaiting"]_vars

\* A call on a blank line without a comment context has sent its request,
\* and a later call has been cut short with the source of that request still
\* stored.
C21_Witness ==
  \E c, d \in Calls :
    /\ c < d
    /\ RequestSent(c)
    /\ CommentRun(DocumentOf(input[c]), PositionOf(input[c])) = ""
    /\ Trim(LineAt(DocumentOf(input[c]), PositionOf(input[c]).line)) = ""
    /\ history[d].outcome = "short"
    /\ result[d] = << >>
    /\ lastRequest = c

\* The language profile computed from the document of an input.
ProfileOf(in) == getLanguageContext(DocumentOf(in))

\* This step processes the answer to the request of call r.
Processes(r) == ~Answered(r) /\ history'[r].outcome = "answered"

\* C22: under every interleaving of triggers, when the answer to a request
\* is processed, the language field the sanitizer reads is the profile
\* computed from the document of that request, written by the pipeline of
\* that request and by no later one, and the result is the answer handled
\* under that profile.
C22_OwnProfileAtSanitize ==
  [][\A r \in Calls :
       Processes(r) =>
         /\ currentLanguage = ProfileOf(input[r])
         /\ lastRequest = r
         /\ result'[r] =
              HandleResponse(ResponseList[history'[r].response],
                             DocumentOf(input[r]), PositionOf(input[r]),
                             ProfileOf(input[r])).value]_vars

\* Two calls on documents of different profiles have both had their answer
\* processed, the later one an answer that carries a type annotation.
C22_Witness ==
  \E c, d \in Calls :
    /\ c < d
    /\ Answered(c)
    /\ Answered(d)
    /\ ProfileOf(input[c]) # ProfileOf(input[d])
    /\ history[d].response = 2
    /\ result[d] # << >>

\* This step is a trigger.
Triggers == \E c \in Calls : pc[c] = "none" /\ pc'[c] = "pending"

\* C23: a cancel is signalled by a trigger only, and only on the source
\* stored at that moment; a request starts with a source no trigger has
\* cancelled and stores it; the stored source is never cleared; a request
\* ends cancelled only if it was the stored one and in flight at a trigger;
\* and a trigger whose stored source is of a request that is no longer in
\* flight changes no result of an earlier call and not the output channel.
C23_CancelReachesStoredOnly ==
  [][/\ cancelledTokens' # cancelledTokens =>
          /\ Triggers
          /\ lastRequest # 0
          /\ cancelledTokens' = cancelledTokens \cup {lastRequest}
     /\ \A r \in Calls :
          /\ r \in server' \ server =>
               /\ r \notin cancelledTokens'
               /\ lastRequest # r
               /\ lastRequest' = r
          /\ (history[r].outcome # "cancelled" /\
              history'[r].outcome = "cancelled") =>
               Triggers /\ lastRequest = r /\ r \in inFlight
     /\ lastRequest # 0 => lastRequest' # 0
     /\ (Triggers /\ lastRequest \notin inFlight) =>
          /\ outputChannel' = outputChannel
          /\ result' = result
          /\ \A k \in Calls : pc[k] # "none" => pc'[k] = pc[k]]_vars

\* The source of an answered request was cancelled by a later trigger, after
\* the answer: the call keeps its suggestion, and the request the later call
\* sent is in flight, its source not cancelled.
C23_Witness ==
  \E c, d \in Calls :
    /\ c < d
    /\ Answered(c)
    /\ result[c] # << >>
    /\ c \in cancelledTokens
    /\ d \in inFlight
    /\ d \notin cancelledTokens
    /\ lastRequest = d

=============================================================================
